---- MODULE Spec2Model ----
(***************************************************************************)
(* Session reconciliation of the "Rate My Movie" application.              *)
(*                                                                         *)
(* AuthProvider (src/src/context/AuthContext.tsx) owns (user, isLoading)   *)
(* and drives the service layer signUp / signIn / signOut /                *)
(* getCurrentUser / updateUserProfile / onAuthStateChange                  *)
(* (src/unnamed/part_003, the revision of services/supabaseAuth that       *)
(* imports isSupabaseConfigured from the shipped services/supabase).       *)
(* The identity provider and the profile store are the environment.        *)
(*                                                                         *)
(* JavaScript runs one continuation at a time: every action below is the   *)
(* code between two awaits of one async function.                          *)
(***************************************************************************)
EXTENDS Integers, Sequences, FiniteSets, Bags, TLC

VARIABLES
    user,        \* AuthProvider state: useState<User | null>(null)
    isLoading,   \* AuthProvider state: useState(true)
    isMounted,   \* subscription effect closure: let isMounted = true
    timer,       \* the 3000 ms safety timer: "pending", "fired", "cleared"
    subscribed,  \* the auth-state subscription is registered
    lastUserId,  \* onAuthStateChange closure: let lastUserId = null
    session,     \* identity provider: id of the session user, 0 = none
    acct,        \* identity provider: normalized email -> account
    profiles,    \* profile store: id -> row of table profiles
    events,      \* session events emitted and not yet handed to the listener
    procs,       \* async functions in flight: a bag of invocation records
    nCalls,      \* number of AuthProvider operations invoked so far
    nRefresh,    \* number of TOKEN_REFRESHED events emitted so far
    ret,         \* the operation that settled in the last step, if one did
    watched,     \* MoviesProvider reducer state: Record<number, WatchedMovie>
    isHydrating, \* MoviesProvider reducer state
    action,      \* the MoviesAction dispatched last
    ratedBy,     \* history: movieId -> id of the user whose rating the entry is
    detailsMap,  \* MyWatchedScreen: useState<Record<number, MovieDetails | null>>({})
    isFetchingDetails, \* MyWatchedScreen: useState(false)
    fetchError,  \* MyWatchedScreen: useState<string | null>(null)
    fetchedIdsRef,     \* MyWatchedScreen: useRef<Set<number>>(new Set())
    fetches,     \* MyWatchedScreen: runs of fetchDetails awaiting Promise.all
    effectsDue,  \* MyWatchedScreen: watched changed and its effects have not run
    query,       \* SearchScreen: useState('')
    results,     \* SearchScreen: useState<Movie[]>([])
    searchIsLoading,   \* SearchScreen: its isLoading, useState(false)
    errorMessage,      \* SearchScreen: useState<string | null>(null)
    hasSearched, \* SearchScreen: useState(false)
    requestIdRef,      \* SearchScreen: useRef(0)
    requests,    \* SearchScreen: calls of searchMovies awaiting their response
    debounce     \* SearchScreen: the 500 ms timer of the query effect is armed

\* the session core
sessVars == <<user, isLoading, isMounted, timer, subscribed, lastUserId,
              session, acct, profiles, events, procs, nCalls, nRefresh, ret>>

\* the watched-movies state, its screen, and the search screen
movieVars == <<watched, isHydrating, action, ratedBy>>
screenVars == <<detailsMap, isFetchingDetails, fetchError, fetchedIdsRef,
                fetches, effectsDue>>
searchVars == <<query, results, searchIsLoading, errorMessage, hasSearched,
                requestIdRef, requests, debounce>>
appVars == <<movieVars, screenVars, searchVars>>

vars == <<sessVars, appVars>>

\* the parts of the state: AuthProvider, the listener, the provider, bookkeeping
authVars == <<user, isLoading>>
mountVars == <<isMounted, timer, subscribed>>
provVars == <<session, acct, profiles, events>>

----------------------------------------------------------------------------
\* Bounds of the model.

\* operations the presentation layer invokes after mount
MaxCalls == 2
\* spontaneous token refreshes of the provider
MaxRefresh == 1
\* searches SearchScreen sends to the movie service in one run
MaxSearches == 3

----------------------------------------------------------------------------
\* Program constants.

\* signIn / signUp: while (!profile && attempts < 5)
PostAuthAttempts == 5
\* getCurrentUser: while (!profile && attempts < 3)
HydrateAttempts == 3
\* onAuthStateChange: while (!user && attempts < 5)
EventAttempts == 5
\* signUp: password.length < 6
MinPasswordLen == 6
\* AuthProvider: setTimeout(..., 3000)
SafetyTimeoutMs == 3000

----------------------------------------------------------------------------
\* Strings are sequences of one-character strings.

IsSpace(c) == c = " "

LowerChar(c) ==
    CASE c = "A" -> "a"
      [] c = "B" -> "b"
      [] c = "C" -> "c"
      [] c = "N" -> "n"
      [] OTHER -> c

\* String.prototype.toLowerCase
ToLowerCase(s) == [i \in 1..Len(s) |-> LowerChar(s[i])]

RECURSIVE TrimStart(_)
TrimStart(s) ==
    IF s # <<>> /\ IsSpace(Head(s)) THEN TrimStart(Tail(s)) ELSE s

RECURSIVE TrimEnd(_)
TrimEnd(s) ==
    IF s # <<>> /\ IsSpace(s[Len(s)]) THEN TrimEnd(SubSeq(s, 1, Len(s) - 1)) ELSE s

\* String.prototype.trim
Trim(s) == TrimEnd(TrimStart(s))

\* const normalizedEmail = email.trim().toLowerCase()
NormalizeEmail(email) == ToLowerCase(Trim(email))

----------------------------------------------------------------------------
\* Values.

NullAvatar == "null"

\* user === null
NoUser == [id |-> 0, email |-> <<>>, name |-> <<>>, avatarUri |-> NullAvatar]

\* no row of table profiles with that id
NoRow == [id |-> 0, email |-> <<>>, name |-> <<>>, avatar_uri |-> NullAvatar]

NoAcct == [id |-> 0, password |-> <<>>, name |-> <<>>]

EmailA == <<"a">>
EmailB == <<"b">>
EmailC == <<"c">>
NormEmails == {EmailA, EmailB, EmailC}

Pw5 == <<"p", "p", "p", "p", "p">>
Pw6 == <<"p", "p", "p", "p", "p", "p">>

\* what the presentation layer may type
RawEmails == {<<>>, <<" ">>, <<"a">>, <<" ", "B">>, <<"C", " ">>}
RawPasswords == {<<>>, Pw5, Pw6}
RawNames == {<<" ">>, <<" ", "N">>}
\* RegisterPayload.avatarUri: undefined/null, or a picked image
RawAvatars == {NullAvatar, "uri1"}

Ids == 1..3

\* const mapSupabaseUserToDomain = (supabaseUser) => ({...})
mapSupabaseUserToDomain(row) ==
    [id |-> row.id, email |-> row.email, name |-> row.name,
     avatarUri |-> row.avatar_uri]

\* the row the provider creates for a new identity (profiles: id, email, name, avatar_uri)
NewProfileRow(id, email, name) ==
    [id |-> id, email |-> email, name |-> name, avatar_uri |-> NullAvatar]

\* the account registered under an id
EmailOf(id) == CHOOSE e \in NormEmails : acct[e].id = id

Event(type, sid) == [type |-> type, sid |-> sid]

\* one invocation of an async function
NewProc(seq, op, pc) ==
    [seq |-> seq, op |-> op, pc |-> pc, email |-> <<>>, password |-> <<>>,
     name |-> <<>>, avatar |-> NullAvatar, uid |-> 0, attempts |-> 0,
     inner |-> 0, fin |-> NoUser, sid |-> 0, cur |-> 0]

\* how an operation settled towards its caller: the invocation and "ok" / "error"
NoRet == [p |-> NewProc(-1, "none", "none"), result |-> "none"]

Settle(p, result) == [p |-> p, result |-> result]

\* The registration form is the first thing a run uses and it awaits register()
\* (RegisterScreen keeps its submit button disabled while isSubmitting): no other
\* operation is invoked while a register() is in flight.
RegisterInFlight == \E q \in BagToSet(procs) : q.op = "register"

\* an invocation starts, moves to its next await, or ends
Spawn(q) == procs' = procs (+) SetToBag({q})
Replace(pr, q) == procs' = (procs (-) SetToBag({pr})) (+) SetToBag({q})
Drop(pr) == procs' = procs (-) SetToBag({pr})

----------------------------------------------------------------------------
\* The application around the session core: MoviesProvider (context/
\* MoviesContext, kept in src/src/context/AuthContext.tsx 193-299),
\* MyWatchedScreen and SearchScreen.

MovieIds == 1..2
Ratings == {1, 5}
RatedAts == {1, 2}

\* WatchedMovie payloads (types/domain.ts; notes are not modelled)
WatchedMovies == [movieId : MovieIds, rating : Ratings, ratedAt : RatedAts]

\* a JavaScript object without own properties; one with number keys is a
\* function on the set of its keys
NoEntries == [k \in {} |-> 0]

NoAction == [type |-> "none", payload |-> 0]

\* string | null
NullMessage == "null"

\* the state after MoviesProvider, MyWatchedScreen and SearchScreen have
\* mounted and their effects have run once
InitApp ==
    /\ watched = NoEntries
    /\ isHydrating = TRUE
    /\ action = NoAction
    /\ ratedBy = [k \in MovieIds |-> 0]
    /\ detailsMap = NoEntries
    /\ isFetchingDetails = FALSE
    /\ fetchError = NullMessage
    /\ fetchedIdsRef = {}
    /\ fetches = {}
    /\ effectsDue = FALSE
    /\ query = <<>>
    /\ results = <<>>
    /\ searchIsLoading = FALSE
    /\ errorMessage = NullMessage
    /\ hasSearched = FALSE
    /\ requestIdRef = 0
    /\ requests = {}
    /\ debounce = TRUE

----------------------------------------------------------------------------
\* The state after AuthProvider has mounted: both effects have run, so
\* hydrate() is in flight, the listener is subscribed (the provider owes it
\* INITIAL_SESSION) and the safety timer is armed.  First launch: the device
\* holds no persisted session; two accounts exist at the provider.

\* the accounts a and b and their profile rows; c is not registered
InitProvider ==
    /\ acct = [e \in NormEmails |->
                 CASE e = EmailA -> [id |-> 1, password |-> Pw6, name |-> <<"n">>]
                   [] e = EmailB -> [id |-> 2, password |-> Pw6, name |-> <<"n">>]
                   [] OTHER -> NoAcct]
    /\ profiles = [i \in Ids |->
                     CASE i = 1 -> NewProfileRow(1, EmailA, <<"n">>)
                       [] i = 2 -> NewProfileRow(2, EmailB, <<"n">>)
                       [] OTHER -> NoRow]

Init ==
    /\ user = NoUser
    /\ isLoading = TRUE
    /\ isMounted = TRUE
    /\ timer = "pending"
    /\ subscribed = TRUE
    /\ lastUserId = 0
    /\ session = 0
    /\ InitProvider
    /\ events = <<Event("INITIAL_SESSION", session)>>
    /\ procs = SetToBag({NewProc(0, "hydrate", "getUser")})
    /\ nCalls = 0
    /\ nRefresh = 0
    /\ ret = NoRet
    /\ InitApp

----------------------------------------------------------------------------
\* Environment: the identity provider and the profile store.

\* supabase.from('profiles').select('*').eq('id', id).single(): the row, or an
\* error with no data while the row is not visible
ReadProfile(id) == profiles[id]

\* supabase.auth.getUser(): the user of the current session, 0 = none
GetUser == session

\* supabase.auth.signInWithPassword: the identity whose credentials match, 0 = none
Authenticates(email, password) ==
    IF email \in NormEmails /\ acct[email].id # 0 /\ acct[email].password = password
    THEN acct[email].id
    ELSE 0

Emit(type, sid) == events' = Append(events, Event(type, sid))

\* no operation settles in this step
Quiet == ret' = NoRet

\* the profile row of a registered identity becomes visible in the store
InsertProfile(id) ==
    /\ profiles[id] = NoRow
    /\ \E e \in NormEmails :
         /\ acct[e].id = id
         /\ profiles' = [profiles EXCEPT ![id] = NewProfileRow(id, e, acct[e].name)]
    /\ Quiet
    /\ UNCHANGED <<authVars, mountVars, lastUserId, session, acct, events, procs,
                   nCalls, nRefresh>>

\* the provider refreshes the token of the current session
TokenRefresh ==
    /\ session # 0
    /\ nRefresh < MaxRefresh
    /\ nRefresh' = nRefresh + 1
    /\ Emit("TOKEN_REFRESHED", session)
    /\ Quiet
    /\ UNCHANGED <<authVars, mountVars, lastUserId, session, acct, profiles, procs,
                   nCalls>>

----------------------------------------------------------------------------
\* AuthProvider: the listener and the safety timer of the subscription effect.

\* setUser((currentUser) => (currentUser && !authUser) ? currentUser : authUser)
MergeAuthUser(currentUser, authUser) ==
    IF currentUser # NoUser /\ authUser = NoUser THEN currentUser ELSE authUser

\* a callback that keeps loading while it has no user to show
AuthCallbackLoading(authUser) ==
    IF isMounted
    THEN /\ user' = MergeAuthUser(user, authUser)
         /\ isLoading' = (authUser = NoUser)
    ELSE UNCHANGED authVars

\* the callback AuthProvider passes to onAuthStateChange
AuthCallback(authUser) ==
    IF isMounted
    THEN /\ user' = MergeAuthUser(user, authUser)
         /\ isLoading' = FALSE
    ELSE UNCHANGED authVars

\* a timer callback that leaves the flag alone
TimeoutEffectStuck == isLoading

\* setTimeout(() => { if (isMounted) setIsLoading(false) }, 3000)
TimeoutEffect == IF isMounted THEN FALSE ELSE isLoading

\* the safety timer expires, SafetyTimeoutMs after mount
TimeoutFire ==
    /\ timer = "pending"
    /\ timer' = "fired"
    /\ isLoading' = TimeoutEffect
    /\ Quiet
    /\ UNCHANGED <<user, isMounted, subscribed, lastUserId, provVars, procs,
                   nCalls, nRefresh>>

\* the effect's cleanup: isMounted = false; clearTimeout(timeoutId); unsubscribe()
Unmount ==
    /\ isMounted
    /\ isMounted' = FALSE
    /\ timer' = IF timer = "pending" THEN "cleared" ELSE timer
    /\ subscribed' = FALSE
    /\ Quiet
    /\ UNCHANGED <<authVars, lastUserId, provVars, procs, nCalls, nRefresh>>

----------------------------------------------------------------------------
\* onAuthStateChange (service): the listener registered with the provider.

\* a listener that keeps no lastUserId
SkipEventNever(e) == FALSE

\* if (session?.user?.id === lastUserId) return
SkipEvent(e) == e.sid = lastUserId

\* the listener up to its first await
DeliverEvent ==
    /\ events # <<>>
    /\ events' = Tail(events)
    /\ LET e == Head(events) IN
       IF ~subscribed
       THEN UNCHANGED <<authVars, lastUserId, procs>>
       ELSE IF e.type = "SIGNED_OUT" \/ e.sid = 0
       THEN /\ lastUserId' = 0
            /\ AuthCallback(NoUser)
            /\ UNCHANGED procs
       ELSE IF SkipEvent(e)
       THEN UNCHANGED <<authVars, lastUserId, procs>>
       ELSE /\ lastUserId' = e.sid
            /\ Spawn([NewProc(0, "event", "getUser") EXCEPT !.sid = e.sid])
            /\ UNCHANGED authVars
    /\ Quiet
    /\ UNCHANGED <<mountVars, session, acct, profiles, nCalls, nRefresh>>

\* getCurrentUser() returned null inside the listener's loop:
\* attempts++, and either the next round or callback(null)
EventAfterNull(pr, p) ==
    LET q == [p EXCEPT !.attempts = @ + 1, !.inner = 0, !.pc = "getUser"] IN
    IF q.attempts < EventAttempts
    THEN /\ Replace(pr, q)
         /\ UNCHANGED authVars
    ELSE /\ Drop(pr)
         /\ AuthCallback(NoUser)

\* user = await getCurrentUser(): its supabase.auth.getUser()
EventGetUser(pr) ==
    /\ pr.op = "event" /\ pr.pc = "getUser"
    /\ IF GetUser = 0
       THEN EventAfterNull(pr, pr)
       ELSE /\ Replace(pr, [pr EXCEPT !.pc = "read", !.uid = GetUser])
            /\ UNCHANGED authVars
    /\ Quiet
    /\ UNCHANGED <<mountVars, lastUserId, provVars, nCalls, nRefresh>>

\* user = await getCurrentUser(): one profile read of its loop
EventRead(pr) ==
    /\ pr.op = "event" /\ pr.pc = "read"
    /\ LET p == [pr EXCEPT !.inner = @ + 1]
           row == ReadProfile(p.uid) IN
       IF row # NoRow
       THEN /\ Drop(pr)
            /\ AuthCallback(mapSupabaseUserToDomain(row))
       ELSE IF p.inner < HydrateAttempts
       THEN /\ Replace(pr, p)
            /\ UNCHANGED authVars
       ELSE EventAfterNull(pr, p)
    /\ Quiet
    /\ UNCHANGED <<mountVars, lastUserId, provVars, nCalls, nRefresh>>

----------------------------------------------------------------------------
\* AuthProvider.hydrate

\* hydrate(): setIsLoading(true), then await getCurrentUser()
StartHydrate ==
    /\ isMounted
    /\ ~RegisterInFlight
    /\ nCalls < MaxCalls
    /\ nCalls' = nCalls + 1
    /\ isLoading' = TRUE
    /\ Spawn(NewProc(nCalls + 1, "hydrate", "getUser"))
    /\ Quiet
    /\ UNCHANGED <<user, mountVars, lastUserId, provVars, nRefresh>>

\* a hydrate without its finally
HydrateCommitNoFinally(pr, p, currentUser) ==
    /\ user' = currentUser
    /\ UNCHANGED isLoading
    /\ Drop(pr)
    /\ ret' = Settle(p, "ok")

\* setUser(currentUser); finally setIsLoading(false)
HydrateCommit(pr, p, currentUser) ==
    /\ user' = currentUser
    /\ isLoading' = FALSE
    /\ Drop(pr)
    /\ ret' = Settle(p, "ok")

\* getCurrentUser's supabase.auth.getUser(): the user of the session, or none
\* when there is no session or the query fails (hydrate's catch: setUser(null))
HydrateGetUser(pr) ==
    /\ pr.op = "hydrate" /\ pr.pc = "getUser"
    /\ \E authUser \in {GetUser, 0} :
         IF authUser = 0
         THEN HydrateCommit(pr, pr, NoUser)
         ELSE /\ Replace(pr, [pr EXCEPT !.pc = "read", !.uid = authUser])
              /\ Quiet
              /\ UNCHANGED authVars
    /\ UNCHANGED <<mountVars, lastUserId, provVars, nCalls, nRefresh>>

\* a getCurrentUser that guesses a user when its reads are exhausted
HydrateReadGuess(pr) ==
    /\ pr.op = "hydrate" /\ pr.pc = "read"
    /\ LET p == [pr EXCEPT !.inner = @ + 1]
           row == ReadProfile(p.uid) IN
       IF row # NoRow
       THEN HydrateCommit(pr, p, mapSupabaseUserToDomain(row))
       ELSE IF p.inner < HydrateAttempts
       THEN /\ Replace(pr, p)
            /\ Quiet
            /\ UNCHANGED authVars
       ELSE HydrateCommit(pr, p, [id |-> p.uid, email |-> <<>>, name |-> <<"U">>,
                                  avatarUri |-> NullAvatar])
    /\ UNCHANGED <<mountVars, lastUserId, provVars, nCalls, nRefresh>>

HydrateRead(pr) ==
    /\ pr.op = "hydrate" /\ pr.pc = "read"
    /\ LET p == [pr EXCEPT !.inner = @ + 1]
           row == ReadProfile(p.uid) IN
       IF row # NoRow
       THEN HydrateCommit(pr, p, mapSupabaseUserToDomain(row))
       ELSE IF p.inner < HydrateAttempts
       THEN /\ Replace(pr, p)
            /\ Quiet
            /\ UNCHANGED authVars
       ELSE HydrateCommit(pr, p, NoUser)
    /\ UNCHANGED <<mountVars, lastUserId, provVars, nCalls, nRefresh>>

----------------------------------------------------------------------------
\* AuthProvider.login and signIn

\* signIn: if (!normalizedEmail || !password) throw
SignInValid(email, password) == NormalizeEmail(email) # <<>> /\ password # <<>>

\* a catch that also drops the user
LoginFailClearsUser(p) ==
    /\ isLoading' = FALSE
    /\ ret' = Settle(p, "error")
    /\ user' = NoUser

\* login's catch: setIsLoading(false); throw error
LoginFail(p) ==
    /\ isLoading' = FALSE
    /\ ret' = Settle(p, "error")
    /\ UNCHANGED user

StartLogin(email, password) ==
    /\ isMounted
    /\ ~RegisterInFlight
    /\ nCalls < MaxCalls
    /\ nCalls' = nCalls + 1
    /\ LET p == [NewProc(nCalls + 1, "login", "auth") EXCEPT
                   !.email = email, !.password = password] IN
       IF SignInValid(email, password)
       THEN /\ Spawn(p)
            /\ Quiet
            /\ UNCHANGED authVars
       ELSE /\ LoginFail(p)
            /\ UNCHANGED procs
    /\ UNCHANGED <<mountVars, lastUserId, provVars, nRefresh>>

\* await supabase.auth.signInWithPassword({email: normalizedEmail, password});
\* the request may also fail for another reason than the credentials
LoginAuth(pr) ==
    /\ pr.op = "login" /\ pr.pc = "auth"
    /\ \E id \in {Authenticates(NormalizeEmail(pr.email), pr.password), 0} :
         IF id # 0
         THEN /\ session' = id
              /\ Emit("SIGNED_IN", id)
              /\ Replace(pr, [pr EXCEPT !.pc = "read", !.uid = id])
              /\ Quiet
              /\ UNCHANGED authVars
         ELSE /\ LoginFail(pr)
              /\ Drop(pr)
              /\ UNCHANGED <<session, events>>
    /\ UNCHANGED <<mountVars, lastUserId, acct, profiles, nCalls, nRefresh>>

\* a signIn that has no user to return when the profile row is not found
SignInFallbackNone(id) == NoUser

\* signIn's fallback: { id: data.user.id, email: data.user.email || '',
\*                      name: user_metadata?.name || 'Usuário', avatarUri: null }
SignInFallbackUser(id) ==
    [id |-> id, email |-> EmailOf(id),
     name |-> IF acct[EmailOf(id)].name = <<>> THEN <<"U">> ELSE acct[EmailOf(id)].name,
     avatarUri |-> NullAvatar]

\* login: if (loggedUser) { setUser(loggedUser); setIsLoading(false) }
LoginCommit(pr, p, loggedUser) ==
    /\ user' = loggedUser
    /\ isLoading' = FALSE
    /\ Drop(pr)
    /\ ret' = Settle(p, "ok")

\* a signIn with a single profile read that throws when the row is not found
LoginReadOnce(pr) ==
    /\ pr.op = "login" /\ pr.pc = "read"
    /\ IF ReadProfile(pr.uid) # NoRow
       THEN LoginCommit(pr, pr, mapSupabaseUserToDomain(ReadProfile(pr.uid)))
       ELSE /\ LoginFail(pr)
            /\ Drop(pr)
    /\ UNCHANGED <<mountVars, lastUserId, provVars, nCalls, nRefresh>>

\* a signIn whose loop runs once more: while (!profile && attempts <= 5)
LoginReadSix(pr) ==
    /\ pr.op = "login" /\ pr.pc = "read"
    /\ IF pr.attempts <= PostAuthAttempts
       THEN IF ReadProfile(pr.uid) # NoRow
            THEN LoginCommit(pr, pr, mapSupabaseUserToDomain(ReadProfile(pr.uid)))
            ELSE /\ Replace(pr, [pr EXCEPT !.attempts = @ + 1])
                 /\ Quiet
                 /\ UNCHANGED authVars
       ELSE LoginCommit(pr, pr, SignInFallbackUser(pr.uid))
    /\ UNCHANGED <<mountVars, lastUserId, provVars, nCalls, nRefresh>>

\* signIn's loop: while (!profile && attempts < 5) { read; attempts++; wait 300 }
LoginRead(pr) ==
    /\ pr.op = "login" /\ pr.pc = "read"
    /\ LET p == pr
           row == ReadProfile(p.uid) IN
       IF p.attempts < PostAuthAttempts
       THEN IF row # NoRow
            THEN LoginCommit(pr, p, mapSupabaseUserToDomain(row))
            ELSE /\ Replace(pr, [p EXCEPT !.attempts = @ + 1])
                 /\ Quiet
                 /\ UNCHANGED authVars
       ELSE LoginCommit(pr, p, SignInFallbackUser(p.uid))
    /\ UNCHANGED <<mountVars, lastUserId, provVars, nCalls, nRefresh>>

----------------------------------------------------------------------------
\* AuthProvider.logout and signOut

StartLogout ==
    /\ isMounted
    /\ ~RegisterInFlight
    /\ nCalls < MaxCalls
    /\ nCalls' = nCalls + 1
    /\ Spawn(NewProc(nCalls + 1, "logout", "signOut"))
    /\ Quiet
    /\ UNCHANGED <<authVars, mountVars, lastUserId, provVars, nRefresh>>

\* signOut: await supabase.auth.signOut(); the provider ends the session and
\* notifies its subscribers, or reports an error that is thrown to logout's caller
LogoutSignOut(pr) ==
    /\ pr.op = "logout" /\ pr.pc = "signOut"
    /\ \E ok \in BOOLEAN :
         IF ok
         THEN /\ session' = 0
              /\ Emit("SIGNED_OUT", 0)
              /\ Replace(pr, [pr EXCEPT !.pc = "signedOut"])
              /\ Quiet
         ELSE /\ Drop(pr)
              /\ ret' = Settle(pr, "error")
              /\ UNCHANGED <<session, events>>
    /\ UNCHANGED <<authVars, mountVars, lastUserId, acct, profiles, nCalls, nRefresh>>

\* logout after await signOut(): setUser(null)
LogoutCommit(pr) ==
    /\ pr.op = "logout" /\ pr.pc = "signedOut"
    /\ user' = NoUser
    /\ Drop(pr)
    /\ ret' = Settle(pr, "ok")
    /\ UNCHANGED <<isLoading, mountVars, lastUserId, provVars, nCalls, nRefresh>>

----------------------------------------------------------------------------
\* AuthProvider.register and signUp

\* a signUp that does not check the length of the password
SignUpValidNoLength(name, email, password) ==
    /\ Trim(name) # <<>>
    /\ NormalizeEmail(email) # <<>>

\* signUp: the three checks before the first provider call
SignUpValid(name, email, password) ==
    /\ Trim(name) # <<>>
    /\ NormalizeEmail(email) # <<>>
    /\ ~(Len(password) < MinPasswordLen)

\* register's catch: setIsLoading(false); throw error
RegisterFail(p) ==
    /\ isLoading' = FALSE
    /\ ret' = Settle(p, "error")
    /\ UNCHANGED user

StartRegister(name, email, password, avatarUri) ==
    /\ isMounted
    /\ nCalls = 0
    /\ nCalls' = nCalls + 1
    /\ LET p == [NewProc(nCalls + 1, "register", "signUp") EXCEPT
                   !.name = name, !.email = email, !.password = password,
                   !.avatar = avatarUri] IN
       IF SignUpValid(name, email, password)
       THEN /\ Spawn(p)
            /\ Quiet
            /\ UNCHANGED authVars
       ELSE /\ RegisterFail(p)
            /\ UNCHANGED procs
    /\ UNCHANGED <<mountVars, lastUserId, provVars, nRefresh>>

\* the id the provider assigns to the next identity
NextId == Cardinality({e \in NormEmails : acct[e].id # 0}) + 1

\* await supabase.auth.signUp({email: normalizedEmail, password, options: {data: {name}}})
RegisterSignUp(pr) ==
    /\ pr.op = "register" /\ pr.pc = "signUp"
    /\ LET p == pr
           n == NormalizeEmail(p.email) IN
       \E netOk \in BOOLEAN :
         IF ~netOk
         THEN /\ RegisterFail(p)
              /\ Drop(pr)
              /\ UNCHANGED <<session, acct, events>>
         ELSE IF acct[n].id # 0
         THEN /\ Replace(pr, [p EXCEPT !.pc = "dupSignOut"])
              /\ Quiet
              /\ UNCHANGED <<authVars, session, acct, events>>
         ELSE /\ acct' = [acct EXCEPT ![n] =
                            [id |-> NextId, password |-> p.password, name |-> Trim(p.name)]]
              /\ session' = NextId
              /\ Emit("SIGNED_IN", NextId)
              /\ Replace(pr, [p EXCEPT !.pc = "read", !.uid = NextId])
              /\ Quiet
              /\ UNCHANGED authVars
    /\ UNCHANGED <<mountVars, lastUserId, profiles, nCalls, nRefresh>>

\* isAlreadyRegistered: await supabase.auth.signOut()
RegisterDupSignOut(pr) ==
    /\ pr.op = "register" /\ pr.pc = "dupSignOut"
    /\ session' = 0
    /\ Emit("SIGNED_OUT", 0)
    /\ Replace(pr, [pr EXCEPT !.pc = "dupSignIn"])
    /\ Quiet
    /\ UNCHANGED <<authVars, mountVars, lastUserId, acct, profiles, nCalls, nRefresh>>

\* isAlreadyRegistered: await supabase.auth.signInWithPassword(...)
RegisterDupSignIn(pr) ==
    /\ pr.op = "register" /\ pr.pc = "dupSignIn"
    /\ \E id \in {Authenticates(NormalizeEmail(pr.email), pr.password), 0} :
         /\ Replace(pr, [pr EXCEPT !.pc = "dupSignOut2"])
         /\ IF id # 0
            THEN session' = id /\ Emit("SIGNED_IN", id)
            ELSE UNCHANGED <<session, events>>
    /\ Quiet
    /\ UNCHANGED <<authVars, mountVars, lastUserId, acct, profiles, nCalls, nRefresh>>

\* isAlreadyRegistered: await supabase.auth.signOut(); throw
RegisterDupSignOut2(pr) ==
    /\ pr.op = "register" /\ pr.pc = "dupSignOut2"
    /\ session' = 0
    /\ Emit("SIGNED_OUT", 0)
    /\ RegisterFail(pr)
    /\ Drop(pr)
    /\ UNCHANGED <<mountVars, lastUserId, acct, profiles, nCalls, nRefresh>>

\* a fallback built from the raw inputs
SignUpFallbackUserRaw(p) ==
    [id |-> p.uid, email |-> p.email, name |-> p.name, avatarUri |-> NullAvatar]

\* signUp's fallback: { id: authData.user.id, email: normalizedEmail,
\*                      name: trimmedName, avatarUri: null }
SignUpFallbackUser(p) ==
    [id |-> p.uid, email |-> NormalizeEmail(p.email), name |-> Trim(p.name),
     avatarUri |-> NullAvatar]

\* register: setUser(finalUser); setIsLoading(false); then the 100 ms wait
RegisterCommit(pr, p, finalUser) ==
    /\ user' = finalUser
    /\ isLoading' = FALSE
    /\ Replace(pr, [p EXCEPT !.pc = "settle", !.fin = finalUser])
    /\ Quiet

\* register after signUp returned newUser: if (avatarUri) attach it, else commit
RegisterAfterSignUp(pr, p, newUser) ==
    IF p.avatar # NullAvatar
    THEN /\ Replace(pr, [p EXCEPT !.pc = "avGetUser", !.fin = newUser])
         /\ Quiet
         /\ UNCHANGED authVars
    ELSE RegisterCommit(pr, p, newUser)

\* signUp's loop: while (!profile && attempts < 5) { read; attempts++; wait 300 }
RegisterRead(pr) ==
    /\ pr.op = "register" /\ pr.pc = "read"
    /\ LET p == pr
           row == ReadProfile(p.uid) IN
       IF p.attempts < PostAuthAttempts
       THEN IF row # NoRow
            THEN RegisterAfterSignUp(pr, p, mapSupabaseUserToDomain(row))
            ELSE /\ Replace(pr, [p EXCEPT !.attempts = @ + 1])
                 /\ Quiet
                 /\ UNCHANGED authVars
       ELSE RegisterAfterSignUp(pr, p, SignUpFallbackUser(p))
    /\ UNCHANGED <<mountVars, lastUserId, provVars, nCalls, nRefresh>>

\* await new Promise(resolve => setTimeout(resolve, 100)): register resolves
RegisterSettle(pr) ==
    /\ pr.op = "register" /\ pr.pc = "settle"
    /\ Drop(pr)
    /\ ret' = Settle(pr, "ok")
    /\ UNCHANGED <<authVars, mountVars, lastUserId, provVars, nCalls, nRefresh>>

\* updateUserProfile(newUser.id, ...): getUser; if (!user || user.id !== userId) throw
RegisterAvatarGetUser(pr) ==
    /\ pr.op = "register" /\ pr.pc = "avGetUser"
    /\ IF GetUser = 0 \/ GetUser # pr.fin.id
       THEN RegisterCommit(pr, pr, pr.fin)
       ELSE /\ Replace(pr, [pr EXCEPT !.pc = "avUpdate"])
            /\ Quiet
            /\ UNCHANGED authVars
    /\ UNCHANGED <<mountVars, lastUserId, provVars, nCalls, nRefresh>>

\* a register that lets the failure of the avatar update reach its caller
RegisterAvatarUpdateThrows(pr) ==
    /\ pr.op = "register" /\ pr.pc = "avUpdate"
    /\ IF profiles[pr.fin.id] # NoRow
       THEN /\ profiles' = [profiles EXCEPT ![pr.fin.id].avatar_uri = pr.avatar]
            /\ Replace(pr, [pr EXCEPT !.pc = "avCurGetUser"])
            /\ Quiet
            /\ UNCHANGED authVars
       ELSE /\ RegisterFail(pr)
            /\ Drop(pr)
            /\ UNCHANGED profiles
    /\ UNCHANGED <<mountVars, lastUserId, session, acct, events, nCalls, nRefresh>>

\* updateUserProfile: profiles.update({avatar_uri}).eq('id', userId).select().single()
RegisterAvatarUpdate(pr) ==
    /\ pr.op = "register" /\ pr.pc = "avUpdate"
    /\ LET p == pr IN
       IF profiles[p.fin.id] # NoRow
       THEN /\ profiles' = [profiles EXCEPT ![p.fin.id].avatar_uri = p.avatar]
            /\ Replace(pr, [p EXCEPT !.pc = "avCurGetUser"])
            /\ Quiet
            /\ UNCHANGED authVars
       ELSE /\ RegisterCommit(pr, p, p.fin)
            /\ UNCHANGED profiles
    /\ UNCHANGED <<mountVars, lastUserId, session, acct, events, nCalls, nRefresh>>

\* const updatedUser = await getCurrentUser(): its supabase.auth.getUser()
RegisterAvatarCurGetUser(pr) ==
    /\ pr.op = "register" /\ pr.pc = "avCurGetUser"
    /\ IF GetUser = 0
       THEN RegisterCommit(pr, pr, pr.fin)
       ELSE /\ Replace(pr, [pr EXCEPT !.pc = "avCurRead", !.cur = GetUser, !.inner = 0])
            /\ Quiet
            /\ UNCHANGED authVars
    /\ UNCHANGED <<mountVars, lastUserId, provVars, nCalls, nRefresh>>

\* const updatedUser = await getCurrentUser(): one profile read of its loop
RegisterAvatarCurRead(pr) ==
    /\ pr.op = "register" /\ pr.pc = "avCurRead"
    /\ LET p == [pr EXCEPT !.inner = @ + 1]
           row == ReadProfile(p.cur) IN
       IF row # NoRow
       THEN RegisterCommit(pr, p, mapSupabaseUserToDomain(row))
       ELSE IF p.inner < HydrateAttempts
       THEN /\ Replace(pr, p)
            /\ Quiet
            /\ UNCHANGED authVars
       ELSE RegisterCommit(pr, p, p.fin)
    /\ UNCHANGED <<mountVars, lastUserId, provVars, nCalls, nRefresh>>

----------------------------------------------------------------------------
\* AuthProvider.updateProfile and updateUserProfile

\* a field the payload leaves undefined
NameUndefined == <<"undefined">>
AvatarUndefined == "undefined"

UpdateNames == {NameUndefined, <<" ">>, <<"M", " ">>}
UpdateAvatars == {AvatarUndefined, NullAvatar, "uri2"}

\* an updateProfile without if (!user) throw
UpdateProfileValidAnyUser(name) ==
    name # NameUndefined => Trim(name) # <<>>

\* an updateProfile without the check of the trimmed name
UpdateProfileValidAnyName(name) == user # NoUser

\* updateProfile's checks: if (!user) throw;
\* if (typeof name === 'string' && !name.trim()) throw
UpdateProfileValid(name) ==
    /\ user # NoUser
    /\ name # NameUndefined => Trim(name) # <<>>

\* updateProfile closes over the user of the render that created it (fin)
StartUpdateProfile(name, avatarUri) ==
    /\ isMounted
    /\ ~RegisterInFlight
    /\ nCalls < MaxCalls
    /\ nCalls' = nCalls + 1
    /\ LET p == [NewProc(nCalls + 1, "updateProfile", "getUser") EXCEPT
                   !.name = name, !.avatar = avatarUri, !.uid = user.id,
                   !.fin = user] IN
       IF UpdateProfileValid(name)
       THEN /\ Spawn(p)
            /\ Quiet
       ELSE /\ ret' = Settle(p, "error")
            /\ UNCHANGED procs
    /\ UNCHANGED <<authVars, mountVars, lastUserId, provVars, nRefresh>>

\* updateUserProfile: getUser; if (!user || user.id !== userId) throw
UpdateGetUser(pr) ==
    /\ pr.op = "updateProfile" /\ pr.pc = "getUser"
    /\ IF GetUser = 0 \/ GetUser # pr.uid
       THEN /\ Drop(pr)
            /\ ret' = Settle(pr, "error")
       ELSE /\ Replace(pr, [pr EXCEPT !.pc = "update"])
            /\ Quiet
    /\ UNCHANGED <<authVars, mountVars, lastUserId, provVars, nCalls, nRefresh>>

\* an update that also rewrites the email column
ApplyUpdatesEmail(row, name, avatarUri) ==
    [row EXCEPT !.name = IF name = NameUndefined THEN @ ELSE Trim(name),
                !.avatar_uri = IF avatarUri = AvatarUndefined THEN @ ELSE avatarUri,
                !.email = <<>>]

\* updateData built from the payload, applied to a row
ApplyUpdates(row, name, avatarUri) ==
    [row EXCEPT !.name = IF name = NameUndefined THEN @ ELSE Trim(name),
                !.avatar_uri = IF avatarUri = AvatarUndefined THEN @ ELSE avatarUri]

\* updateUserProfile: the select (nothing to update) or the update of the row,
\* then updateProfile's setUser(updatedUser)
UpdateWrite(pr) ==
    /\ pr.op = "updateProfile" /\ pr.pc = "update"
    /\ Drop(pr)
    /\ LET p == pr IN
       IF profiles[p.uid] # NoRow
       THEN /\ profiles' = [profiles EXCEPT ![p.uid] = ApplyUpdates(@, p.name, p.avatar)]
            /\ user' = mapSupabaseUserToDomain(profiles'[p.uid])
            /\ ret' = Settle(p, "ok")
       ELSE /\ ret' = Settle(p, "error")
            /\ UNCHANGED <<profiles, user>>
    /\ UNCHANGED <<isLoading, mountVars, lastUserId, session, acct, events, nCalls,
                   nRefresh>>

----------------------------------------------------------------------------
\* The system.

Next ==
    \/ TimeoutFire /\ UNCHANGED appVars
    \/ DeliverEvent /\ UNCHANGED appVars
    \/ TokenRefresh /\ UNCHANGED appVars
    \/ \E id \in Ids : InsertProfile(id) /\ UNCHANGED appVars
    \/ StartHydrate /\ UNCHANGED appVars
    \/ StartLogout /\ UNCHANGED appVars
    \/ \E e \in RawEmails, pw \in RawPasswords : StartLogin(e, pw) /\ UNCHANGED appVars
    \/ \E n \in RawNames, e \in RawEmails, pw \in RawPasswords, a \in RawAvatars :
         StartRegister(n, e, pw, a) /\ UNCHANGED appVars
    \/ \E n \in UpdateNames, a \in UpdateAvatars : StartUpdateProfile(n, a) /\ UNCHANGED appVars
    \/ \E pr \in BagToSet(procs) : EventGetUser(pr) /\ UNCHANGED appVars
    \/ \E pr \in BagToSet(procs) : EventRead(pr) /\ UNCHANGED appVars
    \/ \E pr \in BagToSet(procs) : HydrateGetUser(pr) /\ UNCHANGED appVars
    \/ \E pr \in BagToSet(procs) : HydrateRead(pr) /\ UNCHANGED appVars
    \/ \E pr \in BagToSet(procs) : LoginAuth(pr) /\ UNCHANGED appVars
    \/ \E pr \in BagToSet(procs) : LoginRead(pr) /\ UNCHANGED appVars
    \/ \E pr \in BagToSet(procs) : LogoutSignOut(pr) /\ UNCHANGED appVars
    \/ \E pr \in BagToSet(procs) : LogoutCommit(pr) /\ UNCHANGED appVars
    \/ \E pr \in BagToSet(procs) : RegisterSignUp(pr) /\ UNCHANGED appVars
    \/ \E pr \in BagToSet(procs) : RegisterDupSignOut(pr) /\ UNCHANGED appVars
    \/ \E pr \in BagToSet(procs) : RegisterDupSignIn(pr) /\ UNCHANGED appVars
    \/ \E pr \in BagToSet(procs) : RegisterDupSignOut2(pr) /\ UNCHANGED appVars
    \/ \E pr \in BagToSet(procs) : RegisterRead(pr) /\ UNCHANGED appVars
    \/ \E pr \in BagToSet(procs) : RegisterSettle(pr) /\ UNCHANGED appVars
    \/ \E pr \in BagToSet(procs) : RegisterAvatarGetUser(pr) /\ UNCHANGED appVars
    \/ \E pr \in BagToSet(procs) : RegisterAvatarUpdate(pr) /\ UNCHANGED appVars
    \/ \E pr \in BagToSet(procs) : RegisterAvatarCurGetUser(pr) /\ UNCHANGED appVars
    \/ \E pr \in BagToSet(procs) : RegisterAvatarCurRead(pr) /\ UNCHANGED appVars
    \/ \E pr \in BagToSet(procs) : UpdateGetUser(pr) /\ UNCHANGED appVars
    \/ \E pr \in BagToSet(procs) : UpdateWrite(pr) /\ UNCHANGED appVars

Spec == Init /\ [][Next]_vars

\* the same system with the teardown of the component
NextTeardown ==
    \/ Next
    \/ Unmount /\ UNCHANGED appVars

SpecTeardown == Init /\ [][NextTeardown]_vars

TypeOK ==
    /\ isLoading \in BOOLEAN
    /\ isMounted \in BOOLEAN
    /\ session \in 0..3
    /\ nCalls \in 0..MaxCalls

----------------------------------------------------------------------------
\* MoviesProvider: the reducer and the four functions of the context value.

\* the Record<number, WatchedMovie> values keyed by their movieId
WatchedStates ==
    {w \in UNION {[ks -> WatchedMovies] : ks \in SUBSET MovieIds} :
        \A k \in DOMAIN w : w[k].movieId = k}

\* { ...state.watched, [action.payload.movieId]: action.payload }
SpreadWith(w, entry) ==
    [k \in DOMAIN w \cup {entry.movieId} |->
        IF k = entry.movieId THEN entry ELSE w[k]]

\* const updated = { ...state.watched }; delete updated[action.payload]
SpreadWithout(w, movieId) ==
    [k \in DOMAIN w \ {movieId} |-> w[k]]

\* a reducer whose upsert keeps the entry a movie already has
reducerKeepsFirst(state, a) ==
    CASE a.type = "hydrate" -> [watched |-> a.payload, isHydrating |-> FALSE]
      [] a.type = "upsert" ->
            IF a.payload.movieId \in DOMAIN state.watched
            THEN state
            ELSE [state EXCEPT !.watched = SpreadWith(state.watched, a.payload)]
      [] a.type = "remove" ->
            [state EXCEPT !.watched = SpreadWithout(state.watched, a.payload)]
      [] a.type = "reset" -> [watched |-> NoEntries, isHydrating |-> TRUE]
      [] OTHER -> state

\* reducer(state, action)
reducer(state, a) ==
    CASE a.type = "hydrate" -> [watched |-> a.payload, isHydrating |-> FALSE]
      [] a.type = "upsert" ->
            [state EXCEPT !.watched = SpreadWith(state.watched, a.payload)]
      [] a.type = "remove" ->
            [state EXCEPT !.watched = SpreadWithout(state.watched, a.payload)]
      [] a.type = "reset" -> [watched |-> NoEntries, isHydrating |-> TRUE]
      [] OTHER -> state

\* dispatch(action): the next state of useReducer.  hydrate, upsert, remove
\* and reset all return a new watched object, so the effects of
\* MyWatchedScreen that depend on it are due after the next render.
Dispatch(a) ==
    LET next == reducer([watched |-> watched, isHydrating |-> isHydrating], a) IN
    /\ watched' = next.watched
    /\ isHydrating' = next.isHydrating
    /\ action' = a
    /\ effectsDue' = TRUE

addOrUpdateRating(entry) == Dispatch([type |-> "upsert", payload |-> entry])

removeRating(movieId) == Dispatch([type |-> "remove", payload |-> movieId])

MoviesHydrate(payload) == Dispatch([type |-> "hydrate", payload |-> payload])

MoviesReset == Dispatch([type |-> "reset", payload |-> 0])

\* what a dispatch leaves alone
dispatchFrame == <<ratedBy, detailsMap, isFetchingDetails, fetchError,
                   fetchedIdsRef, fetches, searchVars, sessVars>>

\* MoviesProvider driven through its context value
NextMovies ==
    \/ \E entry \in WatchedMovies : addOrUpdateRating(entry) /\ UNCHANGED dispatchFrame
    \/ \E movieId \in MovieIds : removeRating(movieId) /\ UNCHANGED dispatchFrame
    \/ \E payload \in WatchedStates : MoviesHydrate(payload) /\ UNCHANGED dispatchFrame
    \/ MoviesReset /\ UNCHANGED dispatchFrame

SpecMovies == Init /\ [][NextMovies]_vars

----------------------------------------------------------------------------
\* The screens that drive the session and the ratings.  AppNavigator shows a
\* spinner while isLoading, the AppStack (movie details, profile) when a
\* user is present and the AuthNavigator (login) when none is.

\* a later launch on a device that holds the session of a: hydrate() and
\* the listener's INITIAL_SESSION have resolved, the safety timer has fired
InitSession ==
    /\ user = mapSupabaseUserToDomain(NewProfileRow(1, EmailA, <<"n">>))
    /\ isLoading = FALSE
    /\ isMounted = TRUE
    /\ timer = "fired"
    /\ subscribed = TRUE
    /\ lastUserId = 1
    /\ session = 1
    /\ InitProvider
    /\ events = <<>>
    /\ procs = EmptyBag
    /\ nCalls = 0
    /\ nRefresh = 0
    /\ ret = NoRet
    /\ InitApp

\* the stack the navigator shows
AppStackShown == isLoading = FALSE /\ user # NoUser
AuthNavigatorShown == isLoading = FALSE /\ user = NoUser

\* MovieDetailsScreen.handleSaveRating: the rating of the user who is logged in
handleSaveRating(movieId, rating, ratedAt) ==
    /\ AppStackShown
    /\ rating > 0
    /\ addOrUpdateRating([movieId |-> movieId, rating |-> rating,
                          ratedAt |-> ratedAt])
    /\ ratedBy' = [ratedBy EXCEPT ![movieId] = user.id]
    /\ UNCHANGED <<detailsMap, isFetchingDetails, fetchError, fetchedIdsRef,
                   fetches, searchVars, sessVars>>

\* MovieDetailsScreen.handleRemoveRating
handleRemoveRating(movieId) ==
    /\ AppStackShown
    /\ removeRating(movieId)
    /\ ratedBy' = [ratedBy EXCEPT ![movieId] = 0]
    /\ UNCHANGED <<detailsMap, isFetchingDetails, fetchError, fetchedIdsRef,
                   fetches, searchVars, sessVars>>

\* ProfileScreen.confirmLogout, confirmed: await logout()
confirmLogout == AppStackShown /\ StartLogout

\* LoginScreen.handleSubmit: await login(email.trim(), password)
handleSubmit(email, password) ==
    AuthNavigatorShown /\ StartLogin(Trim(email), password)

NextSession ==
    \/ \E movieId \in MovieIds : handleSaveRating(movieId, 5, 1)
    \/ \E movieId \in MovieIds : handleRemoveRating(movieId)
    \/ confirmLogout /\ UNCHANGED appVars
    \/ \E e \in {<<"a">>, <<" ", "B">>} : handleSubmit(e, Pw6) /\ UNCHANGED appVars
    \/ DeliverEvent /\ UNCHANGED appVars
    \/ \E pr \in BagToSet(procs) : EventGetUser(pr) /\ UNCHANGED appVars
    \/ \E pr \in BagToSet(procs) : EventRead(pr) /\ UNCHANGED appVars
    \/ \E pr \in BagToSet(procs) : LoginAuth(pr) /\ UNCHANGED appVars
    \/ \E pr \in BagToSet(procs) : LoginRead(pr) /\ UNCHANGED appVars
    \/ \E pr \in BagToSet(procs) : LogoutSignOut(pr) /\ UNCHANGED appVars
    \/ \E pr \in BagToSet(procs) : LogoutCommit(pr) /\ UNCHANGED appVars

SpecSession == InitSession /\ [][NextSession]_vars

----------------------------------------------------------------------------
\* MyWatchedScreen (the second component of screens/MyWatchedScreen.tsx).

\* getMovieDetails(id) when it succeeds; null stands for a failed load
DetailsOf(id) == [id |-> id]
NullDetails == [id |-> 0]

\* the ids of watchedList that fetchedIdsRef does not hold
idsToFetch == {k \in DOMAIN watched : k \notin fetchedIdsRef}

\* The effects that depend on watched / watchedList, run after the render
\* that follows a change of watched.  The cleanup of the previous fetch
\* effect sets its cancelled flag.  The first effect drops the details of
\* movies no longer watched; the second starts fetchDetails for idsToFetch.
RunEffects ==
    /\ effectsDue
    /\ effectsDue' = FALSE
    /\ detailsMap' = [k \in DOMAIN detailsMap \cap DOMAIN watched |-> detailsMap[k]]
    /\ fetchedIdsRef' = fetchedIdsRef \ (DOMAIN detailsMap \ DOMAIN watched)
    /\ LET cancelledAll == {[f EXCEPT !.cancelled = TRUE] : f \in fetches} IN
       IF idsToFetch = {}
       THEN /\ fetches' = cancelledAll
            /\ isFetchingDetails' = IF DOMAIN watched = {} THEN FALSE
                                    ELSE isFetchingDetails
            /\ UNCHANGED fetchError
       ELSE /\ fetches' = cancelledAll \cup {[ids |-> idsToFetch, cancelled |-> FALSE]}
            /\ isFetchingDetails' = TRUE
            /\ fetchError' = NullMessage
    /\ UNCHANGED <<movieVars, searchVars, sessVars>>

\* Promise.all of fetchDetails resolves; failed is the set of ids whose
\* getMovieDetails threw
FetchSettle(f, failed) ==
    /\ f \in fetches
    /\ failed \subseteq f.ids
    /\ fetches' = fetches \ {f}
    /\ IF f.cancelled
       THEN UNCHANGED <<detailsMap, isFetchingDetails, fetchError, fetchedIdsRef>>
       ELSE /\ fetchError' = IF failed # {} THEN "some failed" ELSE fetchError
            /\ detailsMap' = [k \in DOMAIN detailsMap \cup f.ids |->
                                IF k \in failed THEN NullDetails
                                ELSE IF k \in f.ids THEN DetailsOf(k)
                                ELSE detailsMap[k]]
            /\ fetchedIdsRef' = fetchedIdsRef \cup f.ids
            /\ isFetchingDetails' = FALSE
    /\ UNCHANGED <<movieVars, effectsDue, searchVars, sessVars>>

\* handleRefresh: setFetchError(null); setDetailsMap({}); fetchedIdsRef.clear()
handleRefresh ==
    /\ fetchError' = NullMessage
    /\ detailsMap' = NoEntries
    /\ fetchedIdsRef' = {}
    /\ UNCHANGED <<isFetchingDetails, fetches, effectsDue, movieVars,
                   searchVars, sessVars>>

NextWatched ==
    \/ \E movieId \in MovieIds :
         addOrUpdateRating([movieId |-> movieId, rating |-> 5, ratedAt |-> 1])
         /\ UNCHANGED dispatchFrame
    \/ \E movieId \in MovieIds : removeRating(movieId) /\ UNCHANGED dispatchFrame
    \/ RunEffects
    \/ \E f \in fetches : \E failed \in SUBSET f.ids : FetchSettle(f, failed)
    \/ handleRefresh

SpecWatched == Init /\ [][NextWatched]_vars

----------------------------------------------------------------------------
\* SearchScreen.

\* what the user can have typed
RawQueries == {<<>>, <<" ">>, <<"x">>, <<"y", " ">>}

\* the movies searchMovies(trimmed) resolves with
MoviesFor(trimmed) == <<[title |-> trimmed]>>

SearchFailedMessage == "search failed"

\* performSearch(text) up to its await
performSearch(text) ==
    LET trimmed == Trim(text) IN
    IF trimmed = <<>>
    THEN /\ results' = <<>>
         /\ errorMessage' = NullMessage
         /\ hasSearched' = FALSE
         /\ UNCHANGED <<searchIsLoading, requestIdRef, requests>>
    ELSE /\ requestIdRef < MaxSearches
         /\ requestIdRef' = requestIdRef + 1
         /\ searchIsLoading' = TRUE
         /\ errorMessage' = NullMessage
         /\ hasSearched' = TRUE
         /\ requests' = requests \cup {[id |-> requestIdRef + 1, q |-> trimmed]}
         /\ UNCHANGED results

\* onChangeText={setQuery}: the query effect clears its timer and arms a new one
setQuery(text) ==
    /\ text # query
    /\ query' = text
    /\ debounce' = TRUE
    /\ UNCHANGED <<results, searchIsLoading, errorMessage, hasSearched,
                   requestIdRef, requests>>
    /\ UNCHANGED <<movieVars, screenVars, sessVars>>

\* setTimeout(() => { void performSearch(query) }, 500) expires
DebounceFire ==
    /\ debounce
    /\ debounce' = FALSE
    /\ performSearch(query)
    /\ UNCHANGED query
    /\ UNCHANGED <<movieVars, screenVars, sessVars>>

\* handleSubmitEditing: void performSearch(query)
handleSubmitEditing ==
    /\ performSearch(query)
    /\ UNCHANGED <<query, debounce>>
    /\ UNCHANGED <<movieVars, screenVars, sessVars>>

\* a continuation that commits whatever its request id is
SearchResolveAlways(r) ==
    /\ r \in requests
    /\ requests' = requests \ {r}
    /\ results' = MoviesFor(r.q)
    /\ searchIsLoading' = FALSE
    /\ UNCHANGED <<query, errorMessage, hasSearched, requestIdRef, debounce>>
    /\ UNCHANGED <<movieVars, screenVars, sessVars>>

\* searchMovies resolved: the try and the finally of performSearch
SearchResolve(r) ==
    /\ r \in requests
    /\ requests' = requests \ {r}
    /\ IF requestIdRef = r.id
       THEN /\ results' = MoviesFor(r.q)
            /\ searchIsLoading' = FALSE
       ELSE UNCHANGED <<results, searchIsLoading>>
    /\ UNCHANGED <<query, errorMessage, hasSearched, requestIdRef, debounce>>
    /\ UNCHANGED <<movieVars, screenVars, sessVars>>

\* searchMovies rejected: the catch and the finally of performSearch
SearchReject(r) ==
    /\ r \in requests
    /\ requests' = requests \ {r}
    /\ IF requestIdRef = r.id
       THEN /\ errorMessage' = SearchFailedMessage
            /\ results' = <<>>
            /\ searchIsLoading' = FALSE
       ELSE UNCHANGED <<results, errorMessage, searchIsLoading>>
    /\ UNCHANGED <<query, hasSearched, requestIdRef, debounce>>
    /\ UNCHANGED <<movieVars, screenVars, sessVars>>

NextSearch ==
    \/ \E text \in RawQueries : setQuery(text)
    \/ DebounceFire
    \/ handleSubmitEditing
    \/ \E r \in requests : SearchResolve(r)
    \/ \E r \in requests : SearchReject(r)

SpecSearch == Init /\ [][NextSearch]_vars

----------------------------------------------------------------------------
\* Properties.

\* C1: stale-result discard for concurrent logins.  When login(A) was invoked
\* before login(B), B authenticated after A and has already resolved, then
\* after A's late result is committed the user is still B's identity, the
\* identity of the provider's session.
C1_StaleLoginDiscarded ==
    (/\ ret.result = "ok"
     /\ ret.p.op = "login"
     /\ ret.p.seq < nCalls
     /\ session # 0
     /\ session # ret.p.uid
     /\ \A q \in BagToSet(procs) : q.op # "login")
    => user.id = session

\* C2: timeout guarantee.  From the initial state, when the safety timer has
\* fired while the provider's first event is still undelivered and hydrate()
\* has not got its answer, isLoading is false and user is still absent.
C2_TimeoutGuarantee ==
    (/\ timer = "fired"
     /\ nCalls = 0
     /\ events = <<Event("INITIAL_SESSION", 0)>>
     /\ procs = SetToBag({NewProc(0, "hydrate", "getUser")}))
    => (isLoading = FALSE /\ user = NoUser)

C2_Witness ==
    /\ timer = "fired"
    /\ nCalls = 0
    /\ events = <<Event("INITIAL_SESSION", 0)>>
    /\ procs = SetToBag({NewProc(0, "hydrate", "getUser")})
    /\ isLoading = FALSE
    /\ user = NoUser

\* C3 (as stated): of two consecutive session events with the same identity
\* the second causes no profile fetch and no state update, and the two
\* together trigger at most one profile read.
C3_AtMostOneRead ==
    [][(/\ events # <<>>
        /\ events' = Tail(events)
        /\ subscribed
        /\ Head(events).type # "SIGNED_OUT"
        /\ Head(events).sid # 0
        /\ Head(events).sid = lastUserId)
       => (/\ UNCHANGED <<user, isLoading, procs>>
           /\ \A q \in BagToSet(procs) :
                (q.op = "event" /\ q.sid = lastUserId)
                    => q.attempts * HydrateAttempts + q.inner <= 1)]_vars

\* C3 (amended): of two consecutive session events with the same identity the
\* second starts no profile resolution, reads nothing and updates nothing:
\* user, isLoading, lastUserId and the handlers in flight are unchanged.
C3_SecondEventIgnored ==
    [][(/\ events # <<>>
        /\ events' = Tail(events)
        /\ subscribed
        /\ Head(events).type # "SIGNED_OUT"
        /\ Head(events).sid # 0
        /\ Head(events).sid = lastUserId)
       => UNCHANGED <<user, isLoading, lastUserId, procs>>]_vars

\* the second SIGNED_IN of an identity is about to be handed to the listener
\* while the handler of the first is still resolving the profile
C3_Witness ==
    /\ events # <<>>
    /\ subscribed
    /\ Head(events).type = "SIGNED_IN"
    /\ Head(events).sid = lastUserId
    /\ \E q \in BagToSet(procs) : q.op = "event" /\ q.sid = lastUserId

\* C4: a session event that is SIGNED_OUT, or carries no session, leaves user
\* absent and isLoading false once handled, whatever the state before it.
C4_SignedOutEventClears ==
    [][(/\ events # <<>>
        /\ events' = Tail(events)
        /\ subscribed
        /\ isMounted
        /\ (Head(events).type = "SIGNED_OUT" \/ Head(events).sid = 0))
       => (user' = NoUser /\ isLoading' = FALSE)]_vars

\* C5: when logout() has resolved successfully the state is
\* (user absent, isLoading false).
C5_LogoutResets ==
    (ret.result = "ok" /\ ret.p.op = "logout")
    => (user = NoUser /\ isLoading = FALSE)

\* C6: when login() has resolved, the state is Authenticated and user.id is the
\* id of the identity the provider authenticated for the credentials, whether
\* the profile row was found or the fallback user was built.
C6_LoginIdentity ==
    (ret.result = "ok" /\ ret.p.op = "login")
    => (/\ user # NoUser
        /\ isLoading = FALSE
        /\ user.id = ret.p.uid
        /\ user.id = acct[ToLowerCase(Trim(ret.p.email))].id
        /\ acct[ToLowerCase(Trim(ret.p.email))].password = ret.p.password)

\* login() resolved with the fallback user: no profile row after five reads
C6_Witness ==
    /\ ret.result = "ok"
    /\ ret.p.op = "login"
    /\ ret.p.attempts = PostAuthAttempts
    /\ profiles[ret.p.uid] = NoRow
    /\ user.id = ret.p.uid
    /\ user.id # 0

C8_LoginFailsIffAuthFails ==
    [][/\ (ret'.result = "error" /\ ret'.p.op = "login")
          => (ret'.p.uid = 0 /\ UNCHANGED <<session, events>>)
       /\ (ret'.result = "ok" /\ ret'.p.op = "login")
          => (/\ ret'.p.uid # 0
              /\ ret'.p.uid = Authenticates(ToLowerCase(Trim(ret'.p.email)),
                                            ret'.p.password))
       /\ \A q \in BagToSet(procs') :
            (q.op = "login" /\ q.pc = "read") => q.uid # 0]_vars

\* the provider authenticated, a profile read failed, and login() resolved
C8_Witness ==
    /\ ret.result = "ok"
    /\ ret.p.op = "login"
    /\ ret.p.attempts > 0
    /\ ret.p.uid = session

\* C9: a register() whose trimmed name is empty, whose trimmed email is empty
\* or whose password is shorter than 6 fails in the step that invokes it:
\* nothing of the provider or the profile store is touched, no continuation is
\* left behind and user is unchanged.
C9_InvalidRegisterRejected ==
    [][/\ \A q \in BagToSet(procs') :
            q.op = "register"
                => ~(\/ Trim(q.name) = <<>>
                     \/ Trim(q.email) = <<>>
                     \/ Len(q.password) < 6)
       /\ (/\ ret'.p.op = "register"
           /\ (\/ Trim(ret'.p.name) = <<>>
               \/ Trim(ret'.p.email) = <<>>
               \/ Len(ret'.p.password) < 6))
          => (/\ ret'.result = "error"
              /\ nCalls' = nCalls + 1
              /\ UNCHANGED <<session, acct, profiles, events, procs, user>>)]_vars

\* a register() rejected for its password alone
C9_Witness ==
    /\ ret.result = "error"
    /\ ret.p.op = "register"
    /\ Trim(ret.p.name) # <<>>
    /\ Trim(ret.p.email) # <<>>
    /\ Len(ret.p.password) = 5
    /\ session = 0
    /\ user = NoUser

C11_AvatarFailureSwallowed ==
    [][/\ \A pr \in BagToSet(procs), q \in BagToSet(procs') :
            (/\ pr.op = "register"
             /\ pr.pc \in {"avGetUser", "avUpdate"}
             /\ q.op = "register"
             /\ q.pc = "settle"
             /\ ~BagIn(q, procs))
            => (/\ user' = pr.fin
                /\ user'.id = q.uid
                /\ user' # NoUser
                /\ isLoading' = FALSE
                /\ ret'.result # "error")
       /\ (ret'.result = "error" /\ ret'.p.op = "register")
          => ret'.p.uid = 0]_vars

\* the avatar update failed on a profile row that is not there, and register()
\* has committed the user of sign-up
C11_Witness ==
    \E q \in BagToSet(procs) :
        /\ q.op = "register"
        /\ q.pc = "settle"
        /\ q.avatar # NullAvatar
        /\ profiles[q.uid] = NoRow
        /\ user = q.fin
        /\ user.id = q.uid
        /\ user.avatarUri = NullAvatar
        /\ isLoading = FALSE

\* C12: an updateProfile() invoked while no user is current rejects in the
\* step that invokes it: no call to the provider or the profile store is
\* made, no continuation is left behind, and user and isLoading are unchanged.
C12_UpdateWithoutUser ==
    [][/\ (/\ ret'.p.op = "updateProfile"
           /\ nCalls' = nCalls + 1
           /\ user = NoUser)
          => (/\ ret'.result = "error"
              /\ UNCHANGED <<user, isLoading, session, acct, profiles, events,
                             procs>>)
       /\ \A q \in BagToSet(procs') :
            q.op = "updateProfile" => q.fin # NoUser]_vars

C12_Witness ==
    /\ ret.result = "error"
    /\ ret.p.op = "updateProfile"
    /\ ret.p.name = <<"M", " ">>
    /\ ret.p.fin = NoUser
    /\ user = NoUser
    /\ session = 0

\* C13: an updateProfile() of an authenticated user whose name is empty after
\* trimming rejects in the step that invokes it: no update reaches the profile
\* store, and user.name and the stored name are unchanged.
C13_BlankNameRejected ==
    [][/\ (/\ ret'.p.op = "updateProfile"
           /\ nCalls' = nCalls + 1
           /\ user # NoUser
           /\ ret'.p.name # NameUndefined
           /\ Trim(ret'.p.name) = <<>>)
          => (/\ ret'.result = "error"
              /\ UNCHANGED <<user, isLoading, session, acct, profiles, events,
                             procs>>)
       /\ \A q \in BagToSet(procs') :
            (q.op = "updateProfile" /\ q.name # NameUndefined)
                => Trim(q.name) # <<>>]_vars

C13_Witness ==
    /\ ret.result = "error"
    /\ ret.p.op = "updateProfile"
    /\ ret.p.name = <<" ">>
    /\ user # NoUser
    /\ ret.p.fin = user
    /\ profiles[user.id].name = user.name
    /\ user.name # <<>>

\* C14: when an updateProfile() has resolved, user has the id and the email
\* of the user the call was made on; its name is the trimmed new name when one
\* was given and its avatarUri the new one (possibly null) when one was given.
C14_UpdateKeepsIdentity ==
    (ret.result = "ok" /\ ret.p.op = "updateProfile")
    => (/\ ret.p.fin # NoUser
        /\ user.id = ret.p.fin.id
        /\ user.email = ret.p.fin.email
        /\ ret.p.name # NameUndefined => user.name = Trim(ret.p.name)
        /\ ret.p.avatar # AvatarUndefined => user.avatarUri = ret.p.avatar)

\* a name and an avatar were changed
C14_Witness ==
    /\ ret.result = "ok"
    /\ ret.p.op = "updateProfile"
    /\ ret.p.name = <<"M", " ">>
    /\ ret.p.avatar = "uri2"
    /\ user.name = <<"M">>
    /\ user.name # ret.p.fin.name
    /\ user.avatarUri # ret.p.fin.avatarUri
    /\ user.id = ret.p.fin.id

\* C15: when a hydrate() has completed, isLoading is false; user is the
\* profile of the session's identity when the session query returned one and
\* its profile was read, and absent when there was no session, when the query
\* failed or when the profile could not be read.
C15_HydrateSettles ==
    (ret.p.op = "hydrate" /\ ret.result # "none")
    => (/\ ret.result = "ok"
        /\ isLoading = FALSE
        /\ user = IF ret.p.uid = 0 \/ profiles[ret.p.uid] = NoRow
                  THEN NoUser
                  ELSE [id |-> ret.p.uid,
                        email |-> profiles[ret.p.uid].email,
                        name |-> profiles[ret.p.uid].name,
                        avatarUri |-> profiles[ret.p.uid].avatar_uri])

\* the session query failed although the provider holds a session
C15_Witness ==
    /\ ret.p.op = "hydrate"
    /\ ret.result = "ok"
    /\ ret.p.uid = 0
    /\ session # 0
    /\ user = NoUser
    /\ isLoading = FALSE

\* C16: signIn and signUp make at most 5 profile reads; when all 5 found no
\* row, login() resolves with the user built from the provider's response
\* (id, email, name, no avatar) and signUp returns the user built from the
\* identity and the normalized inputs.
C16_PostAuthReadsBounded ==
    /\ \A q \in BagToSet(procs) :
         q.op \in {"login", "register"} => q.attempts <= 5
    /\ ret.p.op \in {"login", "register"} => ret.p.attempts <= 5
    /\ (ret.p.op = "login" /\ ret.p.attempts = 5)
       => (/\ ret.result = "ok"
           /\ user = [id |-> ret.p.uid,
                      email |-> ToLowerCase(Trim(ret.p.email)),
                      name |-> acct[ToLowerCase(Trim(ret.p.email))].name,
                      avatarUri |-> NullAvatar])
    /\ \A q \in BagToSet(procs) :
         (/\ q.op = "register"
          /\ q.attempts = 5
          /\ (q.pc \in {"avGetUser", "avUpdate"}
              \/ (q.pc = "settle" /\ q.avatar = NullAvatar)))
         => q.fin = [id |-> q.uid,
                     email |-> ToLowerCase(Trim(q.email)),
                     name |-> Trim(q.name),
                     avatarUri |-> NullAvatar]

\* five reads found no row and login() resolved with the synthesized user
C16_Witness ==
    /\ ret.result = "ok"
    /\ ret.p.op = "login"
    /\ ret.p.attempts = 5
    /\ ret.p.email = <<"C", " ">>
    /\ user.email = <<"c">>
    /\ user.name = <<"N">>
    /\ user.avatarUri = NullAvatar
    /\ profiles[user.id] = NoRow

\* C17: hydrate's getCurrentUser makes at most 3 profile reads; when the
\* session has an identity and all reads found no row, hydrate() completes
\* with user absent and isLoading false.
C17_HydrateReadsBounded ==
    /\ \A q \in BagToSet(procs) : q.op = "hydrate" => q.inner < 3
    /\ ret.p.op = "hydrate" => ret.p.inner <= 3
    /\ (ret.p.op = "hydrate" /\ ret.p.uid # 0 /\ profiles[ret.p.uid] = NoRow)
       => (/\ ret.p.inner = 3
           /\ user = NoUser
           /\ isLoading = FALSE)

C17_Witness ==
    /\ ret.p.op = "hydrate"
    /\ ret.result = "ok"
    /\ ret.p.uid # 0
    /\ ret.p.uid = session
    /\ ret.p.inner = 3
    /\ profiles[ret.p.uid] = NoRow
    /\ user = NoUser
    /\ isLoading = FALSE

\* C18: once isLoading is false, no timeout, no session event and no result
\* of a hydrate(), login(), register(), logout() or updateProfile() sets it
\* back to true: the only step that does is the invocation of hydrate().
C18_NoResurrection ==
    [][(isLoading = FALSE /\ isLoading' = TRUE)
       => (/\ nCalls' = nCalls + 1
           /\ \E q \in BagToSet(procs') :
                /\ q.op = "hydrate"
                /\ q.pc = "getUser"
                /\ q.seq = nCalls'
                /\ ~BagIn(q, procs))]_vars

\* the timer, the first event and the mount-time hydrate() have all arrived
C18_Witness ==
    /\ timer = "fired"
    /\ events = <<>>
    /\ procs = EmptyBag
    /\ nCalls = 0
    /\ lastUserId = 0
    /\ isLoading = FALSE
    /\ user = NoUser

\* C19: while a login() or a register() is in flight, isLoading is true.
C19_LoadingWhileInFlight ==
    (\E q \in BagToSet(procs) : q.op \in {"login", "register"})
    => isLoading = TRUE

\* C20: a call is at its primary provider operation (create account,
\* authenticate, end session) only in the step that invokes it, so the
\* operation is attempted at most once per call; and a register() invokes no
\* authenticate and no end-session operation.
C20_PrimaryOperationOnce ==
    [][\A q \in BagToSet(procs') :
         ~BagIn(q, procs)
         => (/\ q.pc \in {"signUp", "auth", "signOut"}
                => (nCalls' = nCalls + 1 /\ q.seq = nCalls')
             /\ q.op = "register"
                => q.pc \notin {"dupSignOut", "dupSignIn", "dupSignOut2"})]_vars

\* C26: in every state of MoviesProvider each entry of watched is stored
\* under its own movieId (so a movie has at most one entry); after an upsert
\* watched[id] is its payload and after a remove id is absent; upsert and
\* remove leave isHydrating and the entries of all other ids unchanged;
\* hydrate(p) yields (p, isHydrating false) and reset yields (empty,
\* isHydrating true).
C26_ReducerContract ==
    [][/\ \A k \in DOMAIN watched' : watched'[k].movieId = k
       /\ action'.type = "upsert"
          => (/\ action'.payload.movieId \in DOMAIN watched'
              /\ watched'[action'.payload.movieId] = action'.payload
              /\ isHydrating' = isHydrating
              /\ \A k \in MovieIds \ {action'.payload.movieId} :
                   /\ k \in DOMAIN watched' <=> k \in DOMAIN watched
                   /\ k \in DOMAIN watched => watched'[k] = watched[k])
       /\ action'.type = "remove"
          => (/\ action'.payload \notin DOMAIN watched'
              /\ isHydrating' = isHydrating
              /\ \A k \in MovieIds \ {action'.payload} :
                   /\ k \in DOMAIN watched' <=> k \in DOMAIN watched
                   /\ k \in DOMAIN watched => watched'[k] = watched[k])
       /\ action'.type = "hydrate"
          => (watched' = action'.payload /\ isHydrating' = FALSE)
       /\ action'.type = "reset"
          => (watched' = NoEntries /\ isHydrating' = TRUE)]_vars

\* a second upsert of movie 1 replaced its entry and kept that of movie 2
C26_Witness ==
    /\ action.type = "upsert"
    /\ action.payload = [movieId |-> 1, rating |-> 5, ratedAt |-> 2]
    /\ DOMAIN watched = {1, 2}
    /\ watched[1] = action.payload
    /\ watched[2].rating = 1
    /\ isHydrating = TRUE

\* C23: whenever a user is present, every entry of watched is a rating that
\* this user saved: after a rates a movie and logs out and b logs in, watched
\* holds none of a's entries.
C23_WatchedOfCurrentUser ==
    user # NoUser => \A k \in DOMAIN watched : ratedBy[k] = user.id

\* C24: the details of the watched movies are reloaded after handleRefresh.
\* Stated for the states in which nothing is left to run (no effect is due,
\* no fetchDetails is awaiting its result): there every movie of the watched
\* list has been fetched and has its details entry.
C24_RefreshReloads ==
    (effectsDue = FALSE /\ \A f \in fetches : f.cancelled)
    => \A k \in DOMAIN watched : k \in fetchedIdsRef /\ k \in DOMAIN detailsMap

\* C25: the request id only grows, by one for each non-empty search, which
\* sends the request carrying the new id; when a request completes, its
\* response is committed to results, errorMessage and isLoading only if its
\* id is the latest, and is dropped otherwise; isLoading goes from true to
\* false only in the step in which the latest request completes.
C25_StaleSearchDiscarded ==
    [][/\ requestIdRef' >= requestIdRef
       /\ requestIdRef' # requestIdRef
          => (/\ requestIdRef' = requestIdRef + 1
              /\ \E r \in requests' \ requests : r.id = requestIdRef'
              /\ \A r \in requests : r.id < requestIdRef')
       /\ \A r \in requests \ requests' :
            IF r.id = requestIdRef
            THEN /\ searchIsLoading' = FALSE
                 /\ \/ results' = <<[title |-> r.q]>> /\ errorMessage' = errorMessage
                    \/ results' = <<>> /\ errorMessage' # NullMessage
            ELSE UNCHANGED <<results, errorMessage, searchIsLoading>>
       /\ (searchIsLoading = TRUE /\ searchIsLoading' = FALSE)
          => \E r \in requests \ requests' : r.id = requestIdRef]_vars

\* q1 = "x" then q2 = "y" were sent; q2 has completed and is displayed, and
\* q1 is still to complete
C25_Witness ==
    /\ requestIdRef = 2
    /\ requests = {[id |-> 1, q |-> <<"x">>]}
    /\ results = <<[title |-> <<"y">>]>>
    /\ searchIsLoading = FALSE
    /\ hasSearched = TRUE

\* C30: while hasSearched is false (no search yet, or the query was cleared
\* and no new non-empty search was issued), results are empty and there is
\* no error message.
C30_ClearedStaysCleared ==
    hasSearched = FALSE => (results = <<>> /\ errorMessage = NullMessage)

\* C21: after the teardown of AuthProvider (isMounted false) no step changes
\* user or isLoading: no timer expiry, no listener callback and no pending
\* continuation writes them.
C21_TeardownSilences ==
    [][isMounted = FALSE => UNCHANGED <<user, isLoading>>]_vars

\* C22: when user is the identity of the provider's session (a login as B
\* has committed) and a listener handler that resolved another identity A
\* ends, user keeps its identity: the handler's late result does not
\* overwrite user B.
C22_StaleEventDiscarded ==
    [][\A pr \in BagToSet(procs) :
         (/\ pr.op = "event"
          /\ procs' = procs (-) SetToBag({pr})
          /\ session # 0
          /\ user.id = session
          /\ pr.uid # session)
         => user'.id = user.id]_vars

\* C27: a register() that fails never makes user present.  register() is
\* the first call of a run that started without a session, so user is absent
\* while sign-up walks its already-registered path and at the moment
\* register() rejects.
C27_FailedRegisterStaysOut ==
    (\/ ret.p.op = "register" /\ ret.result = "error"
     \/ \E q \in BagToSet(procs) :
          q.op = "register" /\ q.pc \in {"dupSignOut", "dupSignIn", "dupSignOut2"})
    => user = NoUser

\* C28: in the state in which a logout() has just returned successfully, with
\* no login and no register in flight, the next step leaves user absent
\* unless it creates a provider session: the completion of a hydrate(), an
\* updateProfile() or a listener handler that was in flight when logout ran
\* does not make user present again.
C28_LogoutStays ==
    [][(/\ ret.p.op = "logout"
        /\ ret.result = "ok"
        /\ \A q \in BagToSet(procs) : q.op \notin {"login", "register"})
       => (session' = 0 => user' = NoUser)]_vars

\* C29: a signed_in / token_refreshed / initial_session event of identity X
\* that reaches the listener while the profile of X is not visible, user is
\* absent and nothing is in flight (every earlier resolution has exhausted
\* its retries) starts a profile resolution: the de-duplication skips an
\* event only when its identity is reflected in state.
C29_SkipOnlyWhenReflected ==
    [][(/\ events # <<>>
        /\ events' = Tail(events)
        /\ subscribed
        /\ Head(events).type # "SIGNED_OUT"
        /\ Head(events).sid # 0
        /\ Head(events).sid = session
        /\ profiles[session] = NoRow
        /\ user = NoUser
        /\ procs = EmptyBag)
       => \E q \in BagToSet(procs') : q.op = "event" /\ q.sid = Head(events).sid]_vars

====
